---- MODULE Spec2Model ----
(***************************************************************************)
(* Model of the dexterlab topology resolver (class Dlab, types/default.py)  *)
(* and of the identity hashing of its entities (types/basic.py).           *)
(*                                                                         *)
(* Spec     : one construction of a Dlab from a schema-valid definition,   *)
(*            one step per statement / loop iteration of Dlab.__init__.    *)
(* UidSpec  : calls of uid() on two arbitrary instruments / connectors.    *)
(* FmtSpec  : a construction followed by export_as_string calls on the     *)
(*            formatters it has fed (formatters/plant_uml/puml_map.py,     *)
(*            mappers/formatter/string_map.py).                            *)
(* ExportSpec : one call of DefaultPumlformatter.export (remote rendering) *)
(***************************************************************************)
EXTENDS Naturals, Sequences, FiniteSets, TLC

(***************************************************************************)
(* Bounds of the explored definitions.                                     *)
(***************************************************************************)
MaxItems == 4
MaxConns == 2
MaxCalls == 2
MaxExports == 2
MaxAttempts == 3

None == "None"

(***************************************************************************)
(* types/basic.py: identity hashing.                                       *)
(* md5 is modelled as a collision-free digest: the rendered text of the    *)
(* digest is a string wrapping the input, so that distinct inputs give     *)
(* distinct digests and a digest can itself be concatenated and re-hashed. *)
(***************************************************************************)
hash_string(str_in) == "md5(" \o str_in \o ")"

\* A uid that hashes the name only (serial number ignored).
uid_name_only(item) == hash_string(item.name)

\* DlabInstrument.uid
DlabInstrument_uid(item) == hash_string(item.name \o item.sn)

\* DlabConnector.uid
DlabConnector_uid(item) == hash_string(item.name \o item.sn)

\* item.uid(): dispatch on the concrete class of the entity.
uid(item) ==
    IF item.kind = "link" THEN DlabConnector_uid(item)
                          ELSE DlabInstrument_uid(item)

(***************************************************************************)
(* The definitions the resolver is run on.  Every value drawn here passes  *)
(* validation/validator.py (SCHEMA): an item is a single-key mapping       *)
(* class name -> {name, pn, sn[, description, group]}, a connection        *)
(* carries item_connector, start, start_port, end, end_port and an allowed *)
(* category.  None stands for an optional field that is not given.         *)
(***************************************************************************)
ItemChoices ==
    { [cls |-> "GenericInstrument", name |-> "s1", pn |-> "P1", sn |-> "S1",
       description |-> None, group |-> None],
      [cls |-> "GenericInstrument", name |-> "s2", pn |-> "P2", sn |-> "S2",
       description |-> "sensor", group |-> "g1"],
      [cls |-> "Cable",             name |-> "c1", pn |-> "P3", sn |-> "S3",
       description |-> None, group |-> None],
      [cls |-> "Cable",             name |-> "c2", pn |-> "P4", sn |-> "S4",
       description |-> None, group |-> None],
      [cls |-> "Widget",            name |-> "w1", pn |-> "P5", sn |-> "S5",
       description |-> None, group |-> None] }

ConnChoices ==
    { c \in [ item_connector : {"c1", "c2"},
              start          : {"s1", "s9"},
              start_port     : {"out", "aux"},
              end            : {"s2"},
              end_port       : {"in"},
              category       : {"DATAW"} ] :
        c.start = "s9" => c.start_port = "out" }

SeqsUpTo(S, n) == UNION { [1..k -> S] : k \in 0..n }

Definitions ==
    [ items       : SeqsUpTo(ItemChoices, MaxItems),
      connections : SeqsUpTo(ConnChoices, MaxConns) ]

\* The `formatters` argument of Dlab.__init__: None (<<>>) or an override,
\* given as the ordered keys of the mapping.
FormatterArgs == { <<>>, <<"puml">>, <<"strf", "puml">> }

VARIABLES
    labdef,      \* the definition as written in the file (never mutated)
    connections, \* tmp_lab["connections"], the list __get_connection pops from
    pc,          \* position inside Dlab.__init__
    nodes,       \* self.__nodes
    links,       \* self.__links
    classes,     \* self.__classes (the empty mapping until initialised)
    fmt_keys,    \* keys of self.__formatters, in dict order
    calls,       \* per formatter key, the calls it has received so far
    i,           \* loop index of the running pass
    m,           \* inner loop index over the formatter keys
    err,         \* the exception raised out of __init__ (NoErr if none)
    lookups,     \* number of class-registry lookups performed
    constructed, \* number of node / link entities constructed
    ua, ub,      \* UidSpec: the two entities uid() is called on
    ra, rb,      \* UidSpec: the results of the successive uid() calls
    puml,        \* state of the DefaultPumlformatter instance
    strf,        \* state of the StringFormatter instance
    docs,        \* FmtSpec: the documents export_as_string has returned
    x_pc,        \* ExportSpec: position inside DefaultPumlformatter.export
    x_args,      \* ExportSpec: the arguments of the call
    x_max_attempts, \* the local max_attempts, decremented on failures
    x_left,      \* iterations of range(max_attempts) still to run
    x_errors,    \* the local list errors
    x_reasons,   \* the failure reason of every attempt made, in order
    x_slept,     \* the pauses slept so far
    x_file,      \* content of the destination file
    x_exc        \* the exception raised out of export (NoExc if none)

vars == << labdef, connections, pc, nodes, links, classes, fmt_keys, calls,
           i, m, err, lookups, constructed, ua, ub, ra, rb,
           puml, strf, docs, x_pc, x_args, x_max_attempts, x_left,
           x_errors, x_reasons, x_slept, x_file, x_exc >>

resolverVars == << labdef, connections, pc, nodes, links, classes, fmt_keys,
                   calls, i, m, err, lookups, constructed >>
uidVars == << ua, ub, ra, rb >>
fmtVars == << puml, strf >>
exportVars == << x_pc, x_args, x_max_attempts, x_left, x_errors, x_reasons,
                 x_slept, x_file, x_exc >>
\* What a step of Dlab.__init__ other than the feed pass leaves alone.
outsideVars == << uidVars, fmtVars, docs, exportVars >>

(***************************************************************************)
(* Dlab class constants.                                                   *)
(***************************************************************************)
\* A tuple that also takes the connector binder into account.
ConnTupleWithBinder(v) ==
    << v.item_connector, v.start, v.end, v.start_port, v.end_port >>

\* tuple(v[k] for k in self.NODE_KEYS)
ConnTuple(v) == << v.start, v.end, v.start_port, v.end_port >>

\* Dlab.__get_classes: the concrete subclasses of DlabInstrument and of
\* DlabConnector, by qualified name, with the capability each one has.
GetClasses ==
    [ n \in {"GenericInstrument", "CalibratedInstrument", "Cable"} |->
        IF n = "Cable" THEN "link" ELSE "node" ]

\* Dlab.__get_formatters: the discovered formatters that carry a NAME.
GetFormatters == << "puml", "strf" >>

\* A registry lookup that falls back to a node class for unknown names.
ClassOfOrNode(cls_map, item_name) ==
    IF item_name \in DOMAIN cls_map THEN cls_map[item_name] ELSE "node"

\* self.__classes.get(item_name, None)
ClassOf(cls_map, item_name) ==
    IF item_name \in DOMAIN cls_map THEN cls_map[item_name] ELSE None

Fail(kind, id) == [kind |-> kind, id |-> id]
NoErr == Fail("none", None)
NoClasses == [ n \in {} |-> None ]
NoEntity == [ kind |-> None ]

(***************************************************************************)
(* Initial state: __init__ has loaded and validated the definition and is  *)
(* about to run __check_connections (default.py line 97).                  *)
(***************************************************************************)
UidIdle ==
    /\ ua = NoEntity /\ ub = NoEntity /\ ra = << >> /\ rb = << >>

\* DefaultPumlformatter.__init__ / PumlBaseformatter.__init__: __nodes is an
\* insertion-ordered dict, kept as the sequence of its (uid, node) entries;
\* the accumulated strings are kept as the sequences of their pieces.
PumlNew ==
    [ nodes |-> << >>, free_connectors |-> << >>,
      free_items |-> << >>, groups |-> << >> ]

\* StringFormatter.__init__
StrfNew == [ items |-> << >>, connections |-> << >> ]

NoArgs ==
    [ extension |-> None, suffix |-> "", max_attempts |-> 0,
      attempt_pause |-> 0, meta |-> None, existing |-> None ]
NoExc == [ kind |-> "none", shown |-> 0, traceback |-> << >> ]

ExportIdle ==
    /\ x_pc = "idle" /\ x_args = NoArgs /\ x_max_attempts = 0 /\ x_left = 0
    /\ x_errors = << >> /\ x_reasons = << >> /\ x_slept = << >>
    /\ x_file = None /\ x_exc = NoExc

FmtIdle == puml = PumlNew /\ strf = StrfNew /\ docs = << >>

ResolverInit(defs) ==
    /\ labdef \in defs
    /\ connections = labdef.connections
    /\ pc = "check_connections"
    /\ nodes = << >>
    /\ links = << >>
    /\ classes = NoClasses
    /\ fmt_keys = << >>
    /\ calls = << >>
    /\ i = 1
    /\ m = 1
    /\ err = NoErr
    /\ lookups = 0
    /\ constructed = 0

Init ==
    /\ ResolverInit(Definitions)
    /\ UidIdle
    /\ FmtIdle
    /\ ExportIdle

(***************************************************************************)
(* Dlab.__check_connections (default.py 178-182)                           *)
(***************************************************************************)
CheckConnections ==
    /\ pc = "check_connections"
    /\ LET temp_list == { ConnTuple(connections[k]) : k \in DOMAIN connections }
       IN  IF Cardinality(temp_list) = Len(connections)
           THEN /\ pc' = "init"
                /\ err' = err
           ELSE /\ pc' = "failed"
                /\ err' = Fail("duplicate_connection", None)
    /\ UNCHANGED << labdef, connections, nodes, links, classes, fmt_keys,
                    calls, i, m, lookups, constructed >>
    /\ UNCHANGED outsideVars

(***************************************************************************)
(* Dlab.__init__ lines 99-112: attributes, class registry, formatters.     *)
(* The registry is the discovered one; the formatters are the override     *)
(* when one is given, the discovered ones otherwise.                       *)
(***************************************************************************)
InitRegistries ==
    /\ pc = "init"
    /\ \E arg \in FormatterArgs :
          /\ fmt_keys' = IF arg # << >> THEN arg ELSE GetFormatters
          /\ calls' = [ k \in { fmt_keys'[x] : x \in DOMAIN fmt_keys' } |-> << >> ]
    /\ nodes' = << >>
    /\ links' = << >>
    /\ classes' = GetClasses
    /\ i' = 1
    /\ pc' = "resolve_items"
    /\ puml' = PumlNew
    /\ strf' = StrfNew
    /\ UNCHANGED << labdef, connections, m, err, lookups, constructed >>
    /\ UNCHANGED << uidVars, docs, exportVars >>

(***************************************************************************)
(* Entities (types/basic.py).  A link holds the names of its endpoints     *)
(* and, once linked, references to the node objects: a reference is the    *)
(* position of the node in self.__nodes, 0 standing for None.              *)
(***************************************************************************)
\* item_class(**item_value) for a DlabNode subclass
NewNode(item) ==
    [ kind |-> "node", cls |-> item.cls, name |-> item.name,
      pn |-> item.pn, sn |-> item.sn,
      description |-> item.description, group |-> item.group ]

\* item_class(**{**item_value, **cnt_dict}) for a DlabLink subclass
NewLink(item, cnt_dict) ==
    [ kind |-> "link", cls |-> item.cls, name |-> item.name,
      pn |-> item.pn, sn |-> item.sn,
      description |-> item.description, group |-> item.group,
      start_node_name |-> cnt_dict.start, end_node_name |-> cnt_dict.end,
      start_node_port |-> cnt_dict.start_port,
      end_node_port |-> cnt_dict.end_port,
      category |-> cnt_dict.category,
      start_node |-> 0, end_node |-> 0 ]

\* Adding at the front of a list instead of at its end.
ListPrepend(lst, e) == << e >> \o lst

\* list.append
ListAppend(lst, e) == Append(lst, e)

\* list.pop(k)
ListPop(lst, k) == [ x \in 1..(Len(lst) - 1) |-> IF x < k THEN lst[x] ELSE lst[x + 1] ]

Min(S) == CHOOSE x \in S : \A y \in S : x <= y

\* Dlab.__get_connection: position of the first entry bound to conn_name,
\* 0 when the loop ends without a match (the raise).
GetConnection(conn_name, conns) ==
    LET hits == { k \in DOMAIN conns : conns[k].item_connector = conn_name }
    IN  IF hits = {} THEN 0 ELSE Min(hits)

\* A lookup that returns the first node of the list, whatever its name.
GetNodeAny(node_list, node_name) ==
    IF node_list = << >> THEN 0 ELSE 1

\* Dlab.__get_node: the first node with that name, 0 when none (the raise).
GetNode(node_list, node_name) ==
    LET hits == { k \in DOMAIN node_list : node_list[k].name = node_name }
    IN  IF hits = {} THEN 0 ELSE Min(hits)

(***************************************************************************)
(* Dlab.__resolve_items (default.py 200-215): one iteration of the loop.   *)
(***************************************************************************)
ResolveItem ==
    /\ pc = "resolve_items"
    /\ i <= Len(labdef.items)
    /\ LET item       == labdef.items[i]
           item_class == ClassOf(classes, item.cls)
           k          == GetConnection(item.name, connections)
       IN  /\ lookups' = lookups + 1
           /\ CASE item_class = None ->
                     /\ pc' = "failed"
                     /\ err' = Fail("invalid_class", item.cls)
                     /\ UNCHANGED << nodes, links, connections, constructed, i >>
                [] item_class = "node" ->
                     /\ nodes' = ListAppend(nodes, NewNode(item))
                     /\ constructed' = constructed + 1
                     /\ i' = i + 1
                     /\ UNCHANGED << pc, err, links, connections >>
                [] item_class = "link" /\ k = 0 ->
                     /\ pc' = "failed"
                     /\ err' = Fail("missing_connection", item.name)
                     /\ UNCHANGED << nodes, links, connections, constructed, i >>
                [] item_class = "link" /\ k # 0 ->
                     /\ connections' = ListPop(connections, k)
                     /\ links' = ListAppend(links, NewLink(item, connections[k]))
                     /\ constructed' = constructed + 1
                     /\ i' = i + 1
                     /\ UNCHANGED << pc, err, nodes >>
    /\ UNCHANGED << labdef, classes, fmt_keys, calls, m >>
    /\ UNCHANGED outsideVars

\* The loop of __resolve_items is exhausted: __init__ goes on to line 116.
ResolveItemsDone ==
    /\ pc = "resolve_items"
    /\ i > Len(labdef.items)
    /\ pc' = "update_node_topology"
    /\ i' = 1
    /\ UNCHANGED << labdef, connections, nodes, links, classes, fmt_keys,
                    calls, m, err, lookups, constructed >>
    /\ UNCHANGED outsideVars

(***************************************************************************)
(* Dlab.__update_node_topolgy (default.py 217-223): one iteration.  The    *)
(* start node is assigned before the end node is looked up.                *)
(***************************************************************************)
UpdateNodeTopology ==
    /\ pc = "update_node_topology"
    /\ i <= Len(links)
    /\ LET link == links[i]
           s    == GetNode(nodes, link.start_node_name)
           e    == GetNode(nodes, link.end_node_name)
       IN  CASE s = 0 ->
                  /\ pc' = "failed"
                  /\ err' = Fail("item_not_found", link.start_node_name)
                  /\ UNCHANGED << links, i >>
             [] s # 0 /\ e = 0 ->
                  /\ pc' = "failed"
                  /\ err' = Fail("item_not_found", link.end_node_name)
                  /\ links' = [links EXCEPT ![i].start_node = s]
                  /\ UNCHANGED i
             [] s # 0 /\ e # 0 ->
                  /\ links' = [links EXCEPT ![i].start_node = s,
                                            ![i].end_node = e]
                  /\ i' = i + 1
                  /\ UNCHANGED << pc, err >>
    /\ UNCHANGED << labdef, connections, nodes, classes, fmt_keys, calls, m,
                    lookups, constructed >>
    /\ UNCHANGED outsideVars

UpdateNodeTopologyDone ==
    /\ pc = "update_node_topology"
    /\ i > Len(links)
    /\ pc' = "update_formatters"
    /\ i' = 1
    /\ m' = 1
    /\ UNCHANGED << labdef, connections, nodes, links, classes, fmt_keys,
                    calls, err, lookups, constructed >>
    /\ UNCHANGED outsideVars

(***************************************************************************)
(* formatters/plant_uml/puml_map.py: DefaultPumlformatter.                 *)
(***************************************************************************)
\* Python truth value of an optional string.
Truthy(x) == x # None /\ x # ""

\* ConnectorCategory[category].name
TypeOf(item) == item.category

\* add_item, "Create map" and "Resolve map": the PUML_MAP of every class of
\* the MRO, base classes first, each value replaced by the attribute of that
\* name when the item has a truthy one (called when callable), kept as the
\* literal otherwise.
PumlMap(item) ==
    [ type        |-> item.cls,
      description |-> IF Truthy(item.description) THEN item.description
                                                   ELSE "description",
      symbol      |-> IF item.kind = "link" THEN "C" ELSE "I",
      colour      |-> IF item.kind = "link" THEN "Grey" ELSE "Green",
      label       |-> IF Truthy(item.name) THEN item.name ELSE "name",
      name        |-> uid(item) ]

\* The entries of the map outside ITEM_MANDATORY_FIELDS, in dict order, with
\* capitalised keys: PumlNode.add_field for each.
PumlFields(item) ==
    << << "Part number",
          IF Truthy(item.pn) THEN item.pn ELSE "part_number" >>,
       << "Serial number",
          IF Truthy(item.sn) THEN item.sn ELSE "serial_number" >> >>
    \o IF item.kind = "link"
       THEN << << "Connection type", TypeOf(item) >> >>
       ELSE << >>

\* PumlNode.__init__ followed by the add_field calls of add_item
NewPumlNode(item) ==
    [ group |-> item.group, kwargs |-> PumlMap(item),
      fields |-> PumlFields(item), ports |-> << >> ]

DictHas(d, key) == \E k \in DOMAIN d : d[k].key = key
DictPos(d, key) == CHOOSE k \in DOMAIN d : d[k].key = key
\* d[key]
DictGet(d, key) == d[DictPos(d, key)].val

\* d.update({key: val}): a held key keeps its position and gets the value.
DictUpdate(d, key, val) ==
    IF DictHas(d, key)
    THEN [d EXCEPT ![DictPos(d, key)] = [key |-> key, val |-> val]]
    ELSE Append(d, [key |-> key, val |-> val])

\* DefaultPumlformatter.__get_node_uid
GetNodeUid(item, port) ==
    LET item_uid == IF Truthy(port) THEN hash_string(uid(item) \o port)
                                    ELSE uid(item)
    IN  IF Truthy(item.group) THEN item.group \o "." \o item_uid ELSE item_uid

\* PumlNode.add_port
NodeAddPort(node, port, port_id, node_id) ==
    [node EXCEPT !.ports =
        Append(@, [port |-> port, port_id |-> port_id, node_id |-> node_id])]

\* DefaultPumlformatter.__add_port: the node stored under the item's uid
\* gets the port (the PumlNode is mutated in place).
AddPort(p, port_name, item) ==
    LET k == DictPos(p.nodes, uid(item))
    IN  [p EXCEPT !.nodes[k].val =
            NodeAddPort(@, port_name, hash_string(uid(item) \o port_name),
                        uid(item))]

\* DefaultPumlformatter.add_item
PumlAddItem(p, item) ==
    [p EXCEPT !.nodes = DictUpdate(@, uid(item), NewPumlNode(item))]

\* DefaultPumlformatter.add_connection; conn.start_node and conn.end_node
\* are the node objects of node_list the link was resolved to.
PumlAddConnection(p, conn, node_list) ==
    LET start_node     == node_list[conn.start_node]
        end_node       == node_list[conn.end_node]
        cnt_uid        == GetNodeUid(conn, None)
        start_node_uid == GetNodeUid(start_node, conn.start_node_port)
        p1             == AddPort(p, conn.start_node_port, start_node)
        end_node_uid   == GetNodeUid(end_node, conn.end_node_port)
        p2             == AddPort(p1, conn.end_node_port, end_node)
    IN  [p2 EXCEPT !.free_connectors =
            @ \o << [start |-> start_node_uid, end |-> cnt_uid],
                    [start |-> cnt_uid, end |-> end_node_uid] >>]

\* The calls cs[k..] applied in order to the diagram formatter.
RECURSIVE Feed(_, _, _)
Feed(p, cs, k) ==
    IF k > Len(cs) THEN p
    ELSE Feed(IF cs[k].op = "add_item"
              THEN PumlAddItem(p, cs[k].item)
              ELSE PumlAddConnection(p, cs[k].item, nodes),
              cs, k + 1)

(***************************************************************************)
(* mappers/formatter/string_map.py: StringFormatter.                       *)
(***************************************************************************)
\* CONNECTION_MAP
ConnectionMap(category) ==
    CASE category = "POWER" -> "---"
      [] category = "DATAR" -> "<--"
      [] category = "DATAW" -> "-->"
      [] category = "DATAX" -> "<->"

\* StringFormatter.add_item: one ELEM_SKELETON block appended to __items
StrfAddItem(t, item) ==
    [t EXCEPT !.items =
        Append(@, [item_type |-> item.cls, item_name |-> item.name,
                   descr |-> item.description,
                   rows |-> << << "Part Number", item.pn >>,
                               << "Serial Number", item.sn >> >>])]

\* StringFormatter.add_connection: one CONN_SKELETON block appended
StrfAddConnection(t, conn) ==
    [t EXCEPT !.connections =
        Append(@, [conn_type |-> conn.cls, conn_name |-> conn.name,
                   start |-> conn.start_node_name,
                   start_port |-> conn.start_node_port,
                   arrow |-> ConnectionMap(TypeOf(conn)),
                   end |-> conn.end_node_name,
                   end_port |-> conn.end_node_port])]

\* The calls cs[k..] applied in order to the text-tree formatter.
RECURSIVE StrfFeed(_, _, _)
StrfFeed(t, cs, k) ==
    IF k > Len(cs) THEN t
    ELSE StrfFeed(IF cs[k].op = "add_item"
                  THEN StrfAddItem(t, cs[k].item)
                  ELSE StrfAddConnection(t, cs[k].item),
                  cs, k + 1)

(***************************************************************************)
(* Dlab.__update_formatters (default.py 225-230): one iteration of the     *)
(* inner loop, i.e. one entity fed to one formatter.                       *)
(***************************************************************************)
\* A feed that registers the connection before the item.
EntityCallsConnFirst(item) ==
    IF item.kind = "link"
    THEN << [op |-> "add_connection", item |-> item],
            [op |-> "add_item", item |-> item] >>
    ELSE << [op |-> "add_item", item |-> item] >>

\* Body of the inner loop: the calls one formatter receives for one entity.
EntityCalls(item) ==
    IF item.kind = "link"
    THEN << [op |-> "add_item", item |-> item],
            [op |-> "add_connection", item |-> item] >>
    ELSE << [op |-> "add_item", item |-> item] >>

\* self.items + self.connections
Entities == nodes \o links

UpdateFormatters ==
    /\ pc = "update_formatters"
    /\ i <= Len(Entities)
    /\ LET item    == Entities[i]
           map_key == fmt_keys[m]
       IN  /\ calls' = [calls EXCEPT ![map_key] = @ \o EntityCalls(item)]
           /\ puml' = IF map_key = "puml"
                      THEN Feed(puml, EntityCalls(item), 1) ELSE puml
           /\ strf' = IF map_key = "strf"
                      THEN StrfFeed(strf, EntityCalls(item), 1) ELSE strf
    /\ IF m < Len(fmt_keys)
       THEN m' = m + 1 /\ i' = i
       ELSE m' = 1 /\ i' = i + 1
    /\ UNCHANGED << labdef, connections, pc, nodes, links, classes, fmt_keys,
                    err, lookups, constructed >>
    /\ UNCHANGED << uidVars, docs, exportVars >>

\* The feed pass is over: __init__ returns and the Dlab is handed to the caller.
UpdateFormattersDone ==
    /\ pc = "update_formatters"
    /\ i > Len(Entities)
    /\ pc' = "done"
    /\ UNCHANGED << labdef, connections, nodes, links, classes, fmt_keys,
                    calls, i, m, err, lookups, constructed >>
    /\ UNCHANGED outsideVars

Next ==
    \/ CheckConnections
    \/ InitRegistries
    \/ ResolveItem
    \/ ResolveItemsDone
    \/ UpdateNodeTopology
    \/ UpdateNodeTopologyDone
    \/ UpdateFormatters
    \/ UpdateFormattersDone

Spec == Init /\ [][Next]_vars

\* Dlab.items / Dlab.connections as a caller can read them: there is an
\* instance to read them from only once __init__ has returned.
Constructed == pc = "done"
Failed == pc = "failed"
Terminated == Constructed \/ Failed

TypeOK ==
    /\ pc \in {"check_connections", "init", "resolve_items",
               "update_node_topology", "update_formatters", "done", "failed"}
    /\ (pc = "failed") <=> (err # NoErr)
    /\ Len(nodes) + Len(links) = constructed

(***************************************************************************)
(* FmtSpec: a construction followed by export_as_string calls.             *)
(* The definitions include a cable declared with the name and the serial   *)
(* number of an instrument.                                                *)
(***************************************************************************)
FmtItemChoices ==
    { [cls |-> "GenericInstrument", name |-> "s1", pn |-> "P1", sn |-> "S1",
       description |-> None, group |-> None],
      [cls |-> "GenericInstrument", name |-> "s2", pn |-> "P2", sn |-> "S2",
       description |-> "sensor", group |-> "g1"],
      [cls |-> "Cable",             name |-> "c1", pn |-> "P3", sn |-> "S3",
       description |-> None, group |-> None],
      [cls |-> "Cable",             name |-> "s1", pn |-> "P4", sn |-> "S1",
       description |-> None, group |-> None] }

FmtConnChoices ==
    { [item_connector |-> "c1", start |-> "s1", start_port |-> "out",
       end |-> "s2", end_port |-> "in", category |-> "DATAW"],
      [item_connector |-> "s1", start |-> "s1", start_port |-> "aux",
       end |-> "s2", end_port |-> "in", category |-> "POWER"] }

FmtDefinitions ==
    [ items       : SeqsUpTo(FmtItemChoices, MaxItems),
      connections : SeqsUpTo(FmtConnChoices, MaxConns) ]

\* The metadata a caller passes to export_as_string.
Metas ==
    [ labname : {"lab"}, variant : {"", "v1"}, location : {"bench"},
      env : {None}, description : {"demo"} ]

FmtInit ==
    /\ ResolverInit(FmtDefinitions)
    /\ UidIdle
    /\ FmtIdle
    /\ ExportIdle

\* PumlNode.render
Render(node) ==
    [ kwargs |-> node.kwargs, table |-> node.fields, ports |-> node.ports ]

\* The loop of DefaultPumlformatter.resolve over self.__nodes.values(),
\* from entry k on.
RECURSIVE ResolveFrom(_, _)
ResolveFrom(p, k) ==
    IF k > Len(p.nodes) THEN p
    ELSE LET node        == p.nodes[k].val
             node_render == Render(node)
         IN  ResolveFrom(
                 IF Truthy(node.group)
                 THEN [p EXCEPT !.groups =
                         Append(@, [label |-> node.group,
                                    content |-> node_render])]
                 ELSE [p EXCEPT !.free_items = << node_render >> \o @],
                 k + 1)

\* A resolve that renders on top of what the previous call has left.
PumlResolveNoReset(p) == ResolveFrom(p, 1)

\* DefaultPumlformatter.resolve
PumlResolve(p) ==
    ResolveFrom([p EXCEPT !.free_items = << >>, !.groups = << >>], 1)

\* PumlBaseformatter._inner_export_as_string, on the formatter as resolve
\* has left it.
InnerExportAsString(p, setup_defs) ==
    [ style |-> "", defs |-> setup_defs, groups |-> p.groups,
      items |-> p.free_items, links |-> p.free_connectors ]

\* DefaultPumlformatter.export_as_string: the document returned.
PumlExportAsString(p, meta) ==
    LET variant == IF meta.variant = "" THEN "" ELSE ":" \o meta.variant
    IN  InnerExportAsString(PumlResolve(p),
            [ header |-> "Laboratory location: " \o meta.location,
              title_label |-> meta.labname \o variant ])

\* StringFormatter.export_as_string: the document returned.
StrfExportAsString(t, meta) ==
    [ labname |-> meta.labname, location |-> meta.location,
      descr |-> meta.description,
      environment |-> IF meta.env = None THEN "Not required" ELSE meta.env,
      items |-> t.items, connections |-> t.connections ]

IsActive(key) == \E x \in DOMAIN fmt_keys : fmt_keys[x] = key

\* export_as_string called on the diagram formatter of a constructed Dlab.
PumlExport ==
    /\ pc = "done"
    /\ IsActive("puml")
    /\ Len(docs) < MaxExports
    /\ \E meta \in Metas :
          docs' = Append(docs, [fmt |-> "puml", meta |-> meta,
                                doc |-> PumlExportAsString(puml, meta)])
    /\ puml' = PumlResolve(puml)
    /\ UNCHANGED << resolverVars, uidVars, strf, exportVars >>

\* export_as_string called on the text-tree formatter of a constructed Dlab.
StrfExport ==
    /\ pc = "done"
    /\ IsActive("strf")
    /\ Len(docs) < MaxExports
    /\ \E meta \in Metas :
          docs' = Append(docs, [fmt |-> "strf", meta |-> meta,
                                doc |-> StrfExportAsString(strf, meta)])
    /\ UNCHANGED << resolverVars, uidVars, puml, strf, exportVars >>

FmtNext == Next \/ PumlExport \/ StrfExport

FmtSpec == FmtInit /\ [][FmtNext]_vars

(***************************************************************************)
(* ExportSpec: one call of DefaultPumlformatter.export (puml_map.py        *)
(* 268-319) on a formatter, with a destination file that may exist.        *)
(***************************************************************************)
\* Why an attempt fails: the destination cannot be opened, or the server
\* call raises after the destination has been opened for writing.
Failures == [ stage : {"open", "server"}, reason : {"timeout", "refused"} ]

ExportArgs ==
    [ extension     : {None, "png", "txt"},   \* the extension argument
      suffix        : {"", "svg"},            \* Path(filename).suffix
      max_attempts  : 0..MaxAttempts,
      attempt_pause : {1},
      meta          : Metas,
      existing      : {None, "old bytes"} ]   \* the destination beforehand

ExportInit ==
    /\ x_args \in ExportArgs
    /\ x_pc = "start"
    /\ x_file = x_args.existing
    /\ x_max_attempts = x_args.max_attempts
    /\ x_left = 0
    /\ x_errors = << >>
    /\ x_reasons = << >>
    /\ x_slept = << >>
    /\ x_exc = NoExc
    /\ puml = PumlNew /\ strf = StrfNew /\ docs = << >>
    /\ UidIdle
    /\ labdef = [items |-> << >>, connections |-> << >>]
    /\ connections = << >>
    /\ pc = "export"
    /\ nodes = << >>
    /\ links = << >>
    /\ classes = NoClasses
    /\ fmt_keys = << "puml" >>
    /\ calls = << >>
    /\ i = 1
    /\ m = 1
    /\ err = NoErr
    /\ lookups = 0
    /\ constructed = 0

\* extension = Path(filename).suffix.replace(".", "") when none is given
Extension(args) ==
    IF args.extension = None THEN args.suffix ELSE args.extension

\* server.processes(base): the rendering of the document by the server
Processes(base, extension) == [ rendered |-> base, as |-> extension ]

\* Lines 282-305: extension check, then the document is built.
ExportBegin ==
    /\ x_pc = "start"
    /\ IF Extension(x_args) \in {"png", "svg"}
       THEN /\ x_pc' = "loop"
            /\ x_left' = x_max_attempts
            /\ puml' = PumlResolve(puml)
            /\ x_exc' = x_exc
       ELSE /\ x_pc' = "raised"
            /\ x_exc' = [ kind |-> "extension", shown |-> 0,
                          traceback |-> << >> ]
            /\ UNCHANGED << x_left, puml >>
    /\ x_errors' = << >>
    /\ UNCHANGED << x_args, x_max_attempts, x_reasons, x_slept, x_file >>
    /\ UNCHANGED << resolverVars, uidVars, strf, docs >>

\* A loop that tests the local max_attempts, which failures decrement.
LoopContinuesOnLocal(left, made, local_max) == left > 0 /\ made < local_max

\* for _ in range(max_attempts): the range is built once, from the value
\* max_attempts has on entry; `left` iterations of it remain.
LoopContinues(left, made, local_max) == left > 0

\* Lines 306-314: one iteration of the retry loop.  file.open("wb") creates
\* or empties the destination before server.processes is called.
ExportAttempt ==
    /\ x_pc = "loop"
    /\ LoopContinues(x_left, Len(x_errors), x_max_attempts)
    /\ \/ /\ x_file' = Processes(PumlExportAsString(puml, x_args.meta),
                                 Extension(x_args))
          /\ x_pc' = "returned"
          /\ UNCHANGED << x_max_attempts, x_left, x_errors, x_reasons,
                          x_slept >>
       \/ \E f \in Failures :
             /\ x_file' = IF f.stage = "open" THEN x_file ELSE ""
             /\ x_max_attempts' = x_max_attempts - 1
             /\ x_errors' = Append(x_errors, f.reason)
             /\ x_reasons' = Append(x_reasons, f.reason)
             /\ x_slept' = Append(x_slept, x_args.attempt_pause)
             /\ x_left' = x_left - 1
             /\ x_pc' = x_pc
    /\ UNCHANGED << x_args, x_exc >>
    /\ UNCHANGED << resolverVars, uidVars, fmtVars, docs >>

\* Lines 316-319: the loop is over without a return.
ExportExhausted ==
    /\ x_pc = "loop"
    /\ ~LoopContinues(x_left, Len(x_errors), x_max_attempts)
    /\ x_pc' = "raised"
    /\ x_exc' = [ kind |-> "max_attempts", shown |-> x_max_attempts,
                  traceback |-> x_errors ]
    /\ UNCHANGED << x_args, x_max_attempts, x_left, x_errors, x_reasons,
                    x_slept, x_file >>
    /\ UNCHANGED << resolverVars, uidVars, fmtVars, docs >>

ExportNext == ExportBegin \/ ExportAttempt \/ ExportExhausted

ExportSpec == ExportInit /\ [][ExportNext]_vars

(***************************************************************************)
(* UidSpec: uid() called repeatedly on two arbitrary entities.             *)
(***************************************************************************)
UidEntities ==
    [ kind : {"node"}, name : {"a", "ab"}, sn : {"bc", "c"},
      pn : {"P1", "P2"}, description : {None, "d"}, group : {None, "g"},
      start_node_port : {None}, category : {None} ]
    \cup
    [ kind : {"link"}, name : {"a", "ab"}, sn : {"bc", "c"},
      pn : {"P1", "P2"}, description : {None, "d"}, group : {None, "g"},
      start_node_port : {"out", "aux"}, category : {"POWER", "DATAW"} ]

UidInit ==
    /\ ua \in UidEntities
    /\ ub \in UidEntities
    /\ ra = << >>
    /\ rb = << >>
    /\ labdef = [items |-> << >>, connections |-> << >>]
    /\ connections = << >>
    /\ pc = "uid"
    /\ nodes = << >>
    /\ links = << >>
    /\ classes = NoClasses
    /\ fmt_keys = << >>
    /\ calls = << >>
    /\ i = 1
    /\ m = 1
    /\ err = NoErr
    /\ lookups = 0
    /\ constructed = 0
    /\ FmtIdle
    /\ ExportIdle

CallUidA ==
    /\ Len(ra) < MaxCalls
    /\ ra' = Append(ra, uid(ua))
    /\ UNCHANGED << ua, ub, rb >>
    /\ UNCHANGED << resolverVars, fmtVars, docs, exportVars >>

CallUidB ==
    /\ Len(rb) < MaxCalls
    /\ rb' = Append(rb, uid(ub))
    /\ UNCHANGED << ua, ub, ra >>
    /\ UNCHANGED << resolverVars, fmtVars, docs, exportVars >>

UidNext == CallUidA \/ CallUidB

UidSpec == UidInit /\ [][UidNext]_vars

(***************************************************************************)
(* Properties of the definition a construction was started on.  They are   *)
(* stated on labdef, field by field, independently of the resolver's own   *)
(* helpers.                                                                *)
(***************************************************************************)
Items == labdef.items
Conns == labdef.connections

RegisteredNames == {"GenericInstrument", "CalibratedInstrument", "Cable"}
IsNodeItem(it) == it.cls \in {"GenericInstrument", "CalibratedInstrument"}
IsLinkItem(it) == it.cls = "Cable"

NodeNames == { Items[j].name : j \in { x \in DOMAIN Items : IsNodeItem(Items[x]) } }

HasDupTuple ==
    \E a, b \in DOMAIN Conns :
        /\ a # b
        /\ Conns[a].start = Conns[b].start
        /\ Conns[a].end = Conns[b].end
        /\ Conns[a].start_port = Conns[b].start_port
        /\ Conns[a].end_port = Conns[b].end_port

UnknownItems == { j \in DOMAIN Items : Items[j].cls \notin RegisteredNames }
HasUnknownClass == UnknownItems # {}

\* Entries of the connections list bound to the name n.
BoundTo(n) == { k \in DOMAIN Conns : Conns[k].item_connector = n }

\* The Link-capable item at position j finds no entry left to bind: the
\* entries bound to its name are fewer than the Link-capable items of that
\* name declared up to and including j.
MissingBindingAt(j) ==
    /\ IsLinkItem(Items[j])
    /\ Cardinality(BoundTo(Items[j].name))
         < Cardinality({ x \in 1..j : IsLinkItem(Items[x])
                                        /\ Items[x].name = Items[j].name })
HasMissingBinding == \E j \in DOMAIN Items : MissingBindingAt(j)

\* Connection entries no Link-capable item is bound to.
UnboundConns ==
    { k \in DOMAIN Conns :
        ~ \E j \in DOMAIN Items :
              IsLinkItem(Items[j]) /\ Items[j].name = Conns[k].item_connector }

\* Endpoint names declared by some connection entry that no node item has.
DanglingNames ==
    { n \in { Conns[k].start : k \in DOMAIN Conns }
            \cup { Conns[k].end : k \in DOMAIN Conns } : n \notin NodeNames }

\* Nothing but the clause under study can make the construction fail.
NoOtherFault == ~HasDupTuple /\ ~HasUnknownClass /\ ~HasMissingBinding

(***************************************************************************)
(* C1: a schema-valid definition whose N connection entries have pairwise  *)
(* distinct (start, end, start_port, end_port) tuples, with every class,   *)
(* endpoint and binding resolvable, is constructed successfully and        *)
(* Dlab.connections holds exactly N links.  The code builds one link per   *)
(* Link-capable item, not per connection entry: the statement fails on     *)
(* the two-sensor scenario, which declares no connector item.              *)
(***************************************************************************)
C1_OneLinkPerConnection ==
    (Terminated /\ NoOtherFault /\ DanglingNames = {})
        => (Constructed /\ Len(links) = Len(Conns))

(***************************************************************************)
(* C2: when two connection entries carry the same (start, end,             *)
(* start_port, end_port) tuple, construction fails at the duplicate check, *)
(* before the class registry is consulted and before any node or link is   *)
(* constructed, whatever else is wrong with the definition.                *)
(***************************************************************************)
C2_DuplicateFailsFirst ==
    HasDupTuple =>
        /\ pc \in {"check_connections", "failed"}
        /\ (Failed => err = Fail("duplicate_connection", None))
        /\ lookups = 0
        /\ constructed = 0
        /\ nodes = << >> /\ links = << >>
        /\ classes = NoClasses

\* A duplicated tuple under two different binders, in a definition that also
\* has an unregistered class, a missing binding and a dangling endpoint.
C2_Witness ==
    /\ Failed
    /\ err = Fail("duplicate_connection", None)
    /\ \E a, b \in DOMAIN Conns :
          /\ Conns[a].item_connector # Conns[b].item_connector
          /\ Conns[a].start = Conns[b].start
          /\ Conns[a].start_port = Conns[b].start_port
    /\ HasUnknownClass
    /\ HasMissingBinding
    /\ DanglingNames # {}

(***************************************************************************)
(* C3: a connection entry whose item_connector names no declared connector *)
(* item makes the construction fail with "connection definition is missing *)
(* for <c>"; the entry is never silently dropped.  The code raises that    *)
(* error for a connector item without an entry, and drops the entry that   *)
(* has no item.                                                            *)
(***************************************************************************)
C3_UnboundConnectionFails ==
    (Terminated /\ UnboundConns # {} /\ NoOtherFault /\ DanglingNames = {})
        => /\ Failed
           /\ err.kind = "missing_connection"
           /\ err.id \in { Conns[k].item_connector : k \in UnboundConns }

(***************************************************************************)
(* C4: resolving a Link-capable item named n fails when no connection      *)
(* entry has item_connector = n and also when more than one has.  The code *)
(* binds the first match and never looks for a second one.                 *)
(***************************************************************************)
C4_DuplicateBindingFails ==
    (Terminated /\ ~HasDupTuple /\ ~HasUnknownClass
        /\ \E j \in DOMAIN Items :
              IsLinkItem(Items[j]) /\ Cardinality(BoundTo(Items[j].name)) > 1)
        => Failed

(***************************************************************************)
(* C5: a connection entry whose start or end is not the name of a node     *)
(* item makes the construction fail with an error naming the missing node. *)
(* The code only looks up the endpoints of the entries that were bound to  *)
(* a connector item.                                                       *)
(***************************************************************************)
C5_DanglingEndpointFails ==
    (Terminated /\ DanglingNames # {} /\ NoOtherFault)
        => /\ Failed
           /\ err.kind = "item_not_found"
           /\ err.id \in DanglingNames

FirstUnknown == Min(UnknownItems)

C7_NodeNamesUnique ==
    Constructed =>
        \A a, b \in DOMAIN nodes : a # b => nodes[a].name # nodes[b].name

(***************************************************************************)
(* C9: in a constructed Dlab, Dlab.items lists the nodes in the order      *)
(* their items were declared and Dlab.connections lists the links in the   *)
(* order their connector items were declared, however node and connector   *)
(* items are interleaved.                                                  *)
(***************************************************************************)
NodeItems == SelectSeq(Items, IsNodeItem)
LinkItems == SelectSeq(Items, IsLinkItem)

SameIdentity(entity, item) ==
    /\ entity.cls = item.cls
    /\ entity.name = item.name
    /\ entity.pn = item.pn
    /\ entity.sn = item.sn

C9_DeclarationOrder ==
    Constructed =>
        /\ Len(nodes) = Len(NodeItems)
        /\ \A k \in DOMAIN nodes : SameIdentity(nodes[k], NodeItems[k])
        /\ Len(links) = Len(LinkItems)
        /\ \A k \in DOMAIN links : SameIdentity(links[k], LinkItems[k])

\* Two nodes and two links, declared interleaved, the connection entries
\* listed in the opposite order of their connector items.
C9_Witness ==
    /\ Constructed
    /\ Len(nodes) = 2 /\ nodes[1].name # nodes[2].name
    /\ Len(links) = 2 /\ links[1].name # links[2].name
    /\ IsLinkItem(Items[2]) /\ IsNodeItem(Items[3])
    /\ Conns[1].item_connector = links[2].name

(***************************************************************************)
(* C10: the feed pass gives every active formatter the same sequence of    *)
(* calls: add_item once per node in the order of Dlab.items, then for each *)
(* link of Dlab.connections add_item followed by add_connection, once      *)
(* each; the sequence is a function of the resolved entities alone, not of *)
(* the set of active formatters.                                           *)
(***************************************************************************)
ExpectedFeed ==
    [ x \in 1..(Len(nodes) + 2 * Len(links)) |->
        IF x <= Len(nodes)
        THEN [op |-> "add_item", item |-> nodes[x]]
        ELSE LET y == x - Len(nodes)
             IN  IF y % 2 = 1
                 THEN [op |-> "add_item", item |-> links[(y + 1) \div 2]]
                 ELSE [op |-> "add_connection", item |-> links[y \div 2]] ]

IsPrefix(p, q) == Len(p) <= Len(q) /\ \A x \in DOMAIN p : p[x] = q[x]

C10_FeedPass ==
    (pc \in {"update_formatters", "done"}) =>
        /\ DOMAIN calls = { fmt_keys[x] : x \in DOMAIN fmt_keys }
        /\ \A f \in DOMAIN calls : IsPrefix(calls[f], ExpectedFeed)
        /\ Constructed => \A f \in DOMAIN calls : calls[f] = ExpectedFeed

C10_Witness ==
    /\ Constructed
    /\ Len(fmt_keys) = 2
    /\ Len(nodes) = 2
    /\ Len(links) >= 1
    /\ calls["puml"] = ExpectedFeed /\ calls["strf"] = ExpectedFeed

(***************************************************************************)
(* C8 (as stated): uid() depends on (name, serial_number) only, and any    *)
(* change to the name or to the serial number gives a different uid.       *)
(***************************************************************************)
C8_AnyChangeChangesUid ==
    \A x \in DOMAIN ra, y \in DOMAIN rb :
        (ua.name # ub.name \/ ua.sn # ub.sn) => ra[x] # rb[y]

(***************************************************************************)
(* C8 (amended): uid() depends on (name, serial_number) only: every call   *)
(* on entities with equal (name, serial_number) returns the same uid,      *)
(* whatever their class, part number, description, group, port or          *)
(* category; changing the name alone, or the serial number alone, gives a  *)
(* different uid.  Changing both at once may not: the two strings are      *)
(* concatenated without a separator before hashing.                        *)
(***************************************************************************)
C8_UidOfNameAndSerial ==
    /\ \A x, y \in DOMAIN ra : ra[x] = ra[y]
    /\ \A x \in DOMAIN ra, y \in DOMAIN rb :
          /\ (ua.name = ub.name /\ ua.sn = ub.sn) => ra[x] = rb[y]
          /\ (ua.name # ub.name /\ ua.sn = ub.sn) => ra[x] # rb[y]
          /\ (ua.name = ub.name /\ ua.sn # ub.sn) => ra[x] # rb[y]

\* Two entities equal in (name, serial_number) and different in every other
\* field, each asked for its uid, the first one twice.
C8_Witness ==
    /\ Len(ra) >= 2 /\ Len(rb) >= 1
    /\ ua.name = ub.name /\ ua.sn = ub.sn
    /\ ua.kind # ub.kind /\ ua.pn # ub.pn
    /\ ua.description # ub.description /\ ua.group # ub.group
    /\ ua.start_node_port # ub.start_node_port
    /\ ua.category # ub.category
    /\ ra[1] = rb[1]

(***************************************************************************)
(* C14: every fatal resolution failure reaches the caller with a message   *)
(* that carries the offending identifier (node name, class name, or the    *)
(* connection binder / connection involved).  The message of the           *)
(* duplicate-connection assertion names no connection at all.              *)
(***************************************************************************)
C14_FailureNamesOffender ==
    Failed =>
        /\ err.kind \in {"duplicate_connection", "invalid_class",
                         "missing_connection", "item_not_found"}
        /\ err.id # None

(***************************************************************************)
(* C15: from the feed pass on, every link of Dlab.connections refers to a  *)
(* start node and an end node that are elements of Dlab.items and bear the *)
(* names the link declares, wherever the connector item was declared; no   *)
(* formatter is ever handed a link with an unresolved endpoint.            *)
(***************************************************************************)
C15_EndpointsResolved ==
    (pc \in {"update_formatters", "done"}) =>
        /\ \A k \in DOMAIN links :
              /\ links[k].start_node \in DOMAIN nodes
              /\ nodes[links[k].start_node].name = links[k].start_node_name
              /\ links[k].end_node \in DOMAIN nodes
              /\ nodes[links[k].end_node].name = links[k].end_node_name
        /\ \A f \in DOMAIN calls : \A x \in DOMAIN calls[f] :
              calls[f][x].item.kind = "link" =>
                  /\ calls[f][x].item.start_node \in DOMAIN nodes
                  /\ calls[f][x].item.end_node \in DOMAIN nodes

\* A connector declared before both of its endpoint nodes, fed to a formatter.
C15_Witness ==
    /\ Constructed
    /\ Len(links) >= 1
    /\ IsLinkItem(Items[1])
    /\ links[1].start_node # links[1].end_node
    /\ \E f \in DOMAIN calls : \E x \in DOMAIN calls[f] :
          calls[f][x] = [op |-> "add_connection", item |-> links[1]]

(***************************************************************************)
(* C16: in a constructed Dlab the resolved entities have pairwise distinct *)
(* uids, so that the diagram formatter, which keeps one rendered node per  *)
(* uid, holds one entry per entity after the feed pass.  Nothing in the    *)
(* resolver compares names, serial numbers or uids.                        *)
(***************************************************************************)
C16_DistinctUids ==
    Constructed =>
        /\ \A a, b \in DOMAIN Entities :
              a # b => uid(Entities[a]) # uid(Entities[b])
        /\ (\E x \in DOMAIN fmt_keys : fmt_keys[x] = "puml")
              => Len(puml.nodes) = Len(Entities)

(***************************************************************************)
(* C11: in the diagram formatter every add_connection call appends one     *)
(* port entry to the start node and one to the end node, and the entries   *)
(* earlier calls have registered on a node are never discarded: at every   *)
(* point of the feed pass, the ports held for a node are those of all the  *)
(* add_connection calls made so far that end on it, in call order.         *)
(***************************************************************************)
\* The ports the add_connection calls cs[k..] register on the item of uid u.
RECURSIVE ExpectedPorts(_, _, _)
ExpectedPorts(cs, k, u) ==
    IF k > Len(cs) THEN << >>
    ELSE LET c == cs[k]
         IN  (IF c.op = "add_connection"
              THEN (IF uid(nodes[c.item.start_node]) = u
                    THEN << c.item.start_node_port >> ELSE << >>)
                   \o (IF uid(nodes[c.item.end_node]) = u
                       THEN << c.item.end_node_port >> ELSE << >>)
              ELSE << >>)
             \o ExpectedPorts(cs, k + 1, u)

PortNames(node) == [ x \in DOMAIN node.ports |-> node.ports[x].port ]

C11_PortsAccumulate ==
    (pc \in {"update_formatters", "done"} /\ IsActive("puml")) =>
        \A n \in DOMAIN nodes :
            DictHas(puml.nodes, uid(nodes[n])) =>
                PortNames(DictGet(puml.nodes, uid(nodes[n])))
                    = ExpectedPorts(calls["puml"], 1, uid(nodes[n]))

(***************************************************************************)
(* C12: export_as_string is an idempotent read: a call returns the same    *)
(* document as every earlier call with the same metadata on the same       *)
(* formatter, and leaves the registered items, ports and connections of    *)
(* both formatters as they were.                                           *)
(***************************************************************************)
Accumulated ==
    << puml.nodes, puml.free_connectors, strf.items, strf.connections >>

C12_ExportIsIdempotentRead ==
    [][ Len(docs') = Len(docs) + 1 =>
          /\ Accumulated' = Accumulated
          /\ \A x \in DOMAIN docs :
                (docs[x].fmt = docs'[Len(docs')].fmt
                    /\ docs[x].meta = docs'[Len(docs')].meta)
                  => docs[x].doc = docs'[Len(docs')].doc ]_vars

\* Two exports of the diagram with the same metadata, of a topology with a
\* grouped node, a free node, ports and links.
C12_Witness ==
    /\ Len(docs) >= 2
    /\ docs[1].fmt = "puml" /\ docs[2].fmt = "puml"
    /\ docs[1].meta = docs[2].meta
    /\ docs[1].doc = docs[2].doc
    /\ docs[2].doc.groups # << >>
    /\ docs[2].doc.items # << >>
    /\ docs[2].doc.links # << >>
    /\ \E x \in DOMAIN docs[2].doc.items : docs[2].doc.items[x].ports # << >>

(***************************************************************************)
(* C13: the remote-rendering export makes at most max_attempts attempts;   *)
(* it returns at the first success; when every attempt fails it makes      *)
(* exactly max_attempts attempts, sleeps attempt_pause after each failure, *)
(* and raises one error whose message lists the failure reason of every    *)
(* attempt.                                                                *)
(***************************************************************************)
Attempts == Len(x_reasons) + IF x_pc = "returned" THEN 1 ELSE 0

C13_BoundedRetry ==
    /\ Attempts <= x_args.max_attempts
    /\ x_slept = [ k \in DOMAIN x_reasons |-> x_args.attempt_pause ]
    /\ x_pc = "returned" =>
          x_file = Processes(PumlExportAsString(puml, x_args.meta),
                             Extension(x_args))
    /\ (x_pc = "raised" /\ x_exc.kind = "max_attempts") =>
          /\ Attempts = x_args.max_attempts
          /\ x_exc.traceback = x_reasons
    /\ (x_pc = "raised" /\ x_exc.kind = "extension") => Attempts = 0

\* Every attempt of a call with the largest max_attempts has failed, for
\* different reasons.
C13_Witness ==
    /\ x_pc = "raised"
    /\ x_exc.kind = "max_attempts"
    /\ Len(x_exc.traceback) >= 3
    /\ x_exc.traceback[1] # x_exc.traceback[2]

(***************************************************************************)
(* C17: an export call that ends in failure leaves the content of an       *)
(* already existing destination file as it was.  The code opens the        *)
(* destination for writing before it asks the server for the bytes.        *)
(***************************************************************************)
C17_FailureKeepsFile ==
    (x_pc = "raised" /\ x_args.existing # None) => x_file = x_args.existing

====
